---- MODULE Spec2Model ----
(***************************************************************************)
(* The united queue (uq) engine: a broker (UnitedQueue) owning topics, each *)
(* topic owning a message log [head, tail), a map of consumer lines and a   *)
(* background worker, all persisted in a key/value store.                   *)
(*                                                                          *)
(* topic and UnitedQueue are translated from the Go sources; the line type  *)
(* (pop, confirm, empty, exportLine, exportRecycle), whose file is not part *)
(* of the sources at hand, follows sections 4.2, 4.3 and 4.6 of the design. *)
(***************************************************************************)
EXTENDS Integers, Sequences, FiniteSets, TLC

VARIABLES
  kv,        \* u.storage: key (string) -> stored bytes
  topics,    \* u.topics: topic name -> topic (head, tail, lines, locks)
  worker,    \* topic name -> position of its backgroundClean goroutine
  creating,  \* topic name -> createLine call between newLine and the insert
  pushing,   \* topic name -> mPush call inside its loop
  now,       \* the clock read by time.Now()
  phase,     \* "running", "closed" or "crashed", then "reopened" (after Close),
             \* "recovered" (after a crash or on a storage found) or "failed"
  saved,     \* u.topics as it was when the process last stopped
  kvErrors,  \* number of storage errors injected so far
  calls,     \* caller -> createTopic call between its lookup and its insert,
             \* or the reply it got
  shutdown   \* topic name -> t.quit, the counter of t.wg and the position of
             \* the caller of topic.close

vars == <<kv, topics, worker, creating, pushing, now, phase, saved, kvErrors,
          calls, shutdown>>

----------------------------------------------------------------------------
(* Bounds of the model *)

MaxTail == 2        \* ids 0 .. MaxTail-1 are ever pushed
MaxBatch == 2       \* longest mPush batch
MaxKVErrors == 1    \* storage errors injected in one behaviour

TopicNames == {"T1", "T2"}
LineNames == {"L1", "L2"}
Payloads == {"a", "b"}
ReqTopics == {"T1"}            \* topics named by client requests
RecycleSecs == 2
Recycles == {0, RecycleSecs}   \* recycle durations named by client requests

----------------------------------------------------------------------------
(* Program constants *)

StorageKeyWord == "UnitedQueueKey"
KeyTopicHead == ":head"
KeyTopicTail == ":tail"
KeyLineRecycle == ":recycle"

----------------------------------------------------------------------------
(* Codecs *)

RECURSIVE PutBytes(_, _)
PutBytes(v, n) == IF n = 0 THEN <<>> ELSE <<v % 256>> \o PutBytes(v \div 256, n - 1)

\* binary.LittleEndian.PutUint64
PutUint64(v) == PutBytes(v, 8)

RECURSIVE Uint64(_)
\* binary.LittleEndian.Uint64
Uint64(b) == IF b = <<>> THEN 0 ELSE Head(b) + 256 * Uint64(Tail(b))

\* utils.Acatui: the key of message id of a topic
Acatui(str, b, id) == str \o b \o ToString(id)

\* time.Duration.String for the durations of the model (whole seconds)
DurationString(d) == IF d = 0 THEN "0s" ELSE ToString(d) \o "s"

\* time.ParseDuration: err is TRUE for a text that is no duration
ParseDuration(s) ==
  IF \E d \in 0..RecycleSecs + 1 : DurationString(d) = s
  THEN [err |-> FALSE, d |-> CHOOSE d \in 0..RecycleSecs + 1 : DurationString(d) = s]
  ELSE [err |-> TRUE, d |-> 0]

\* gob encoding of a catalog value: the bytes carry the type and the fields
GobEncode(type, value) == [gob |-> type, value |-> value]

\* gob decoding into a value of the given type: err for other bytes
GobDecode(type, data) ==
  IF data \in [gob : {type}, value : {data.value}]
  THEN [err |-> FALSE, value |-> data.value]
  ELSE [err |-> TRUE]

----------------------------------------------------------------------------
(* Storage (store.Storage behind setData, getData, delData) *)

Get(store, key) ==
  IF key \in DOMAIN store THEN [err |-> FALSE, data |-> store[key]] ELSE [err |-> TRUE]

Set(store, key, data) == (key :> data) @@ store

Del(store, key) == [k \in DOMAIN store \ {key} |-> store[k]]

\* Go map operations
MapPut(m, k, v) == (k :> v) @@ m
MapDelete(m, k) == [x \in DOMAIN m \ {k} |-> m[x]]

----------------------------------------------------------------------------
(* Error kinds (utils.NewError) *)

Ok == "ok"
ErrNone == "None"
ErrBadKey == "BadKey"
ErrBadRequest == "BadRequest"
ErrNotFound == "NotFound"
ErrInternalError == "Internal"
ErrLineExisted == "LineExisted"
ErrLineNotExisted == "LineNotExisted"
ErrTopicExisted == "TopicExisted"
ErrTopicNotExisted == "TopicNotExisted"

----------------------------------------------------------------------------
(* line: one consumer cursor.  A line is a record                           *)
(*   [head, ihead, recycle, inflight, imap]                                 *)
(* inflight is the list of [Tid, Exptime] records, imap the map id -> bool. *)

\* the line catalog written under "{topic}/{line}"
genLineStore(l) == [Head |-> l.head, Ihead |-> l.ihead, Inflights |-> l.inflight]

lineStoreKey(tname, lname) == tname \o "/" \o lname

recycleKey(tname, lname) == tname \o "/" \o lname \o KeyLineRecycle

\* line.exportLine: the store after the catalog of l was written
exportLine(store, tname, lname, l) ==
  Set(store, lineStoreKey(tname, lname), GobEncode("lineStore", genLineStore(l)))

\* line.exportRecycle
exportRecycle(store, tname, lname, l) ==
  Set(store, recycleKey(tname, lname), DurationString(l.recycle))

\* topic.getData as the line calls it
getData(store, tname, id) == Get(store, Acatui(tname, ":", id))

\* a read of imap[id]: a missing entry reads as false
imapGet(imap, id) == id \in DOMAIN imap /\ imap[id]

\* line.pop that delivers the message at head, if there is one, before it
\* looks at the messages in flight
linePop_newFirst(l, store, tname, tail, clock) ==
  IF l.head # tail
  THEN LET got == getData(store, tname, l.head)
       IN IF got.err
          THEN [err |-> ErrInternalError, l |-> l]
          ELSE IF l.recycle = 0
          THEN [err |-> Ok, id |-> l.head, data |-> got.data,
                l |-> [l EXCEPT !.head = @ + 1, !.ihead = @ + 1]]
          ELSE [err |-> Ok, id |-> l.head, data |-> got.data,
                l |-> [l EXCEPT !.head = @ + 1,
                                !.inflight = Append(@, [Tid |-> l.head,
                                                       Exptime |-> clock + l.recycle]),
                                !.imap = MapPut(@, l.head, TRUE)]]
  ELSE IF l.recycle > 0 /\ l.inflight # <<>> /\ Head(l.inflight).Exptime <= clock
  THEN LET msg == Head(l.inflight)
           got == getData(store, tname, msg.Tid)
       IN IF got.err
          THEN [err |-> ErrInternalError, l |-> l]
          ELSE [err |-> Ok, id |-> msg.Tid, data |-> got.data,
                l |-> [l EXCEPT !.inflight =
                         Append(Tail(l.inflight),
                                [Tid |-> msg.Tid, Exptime |-> clock + l.recycle])]]
  ELSE [err |-> ErrNone, l |-> l]

\* line.pop: recycle sweep first, then delivery of the message at head.
\* tail is the value returned by topic.getTail.
linePop(l, store, tname, tail, clock) ==
  IF l.recycle > 0 /\ l.inflight # <<>> /\ Head(l.inflight).Exptime <= clock
  THEN LET msg == Head(l.inflight)
           got == getData(store, tname, msg.Tid)
       IN IF got.err
          THEN [err |-> ErrInternalError, l |-> l]
          ELSE [err |-> Ok, id |-> msg.Tid, data |-> got.data,
                l |-> [l EXCEPT !.inflight =
                         Append(Tail(l.inflight),
                                [Tid |-> msg.Tid, Exptime |-> clock + l.recycle])]]
  ELSE IF l.head = tail
  THEN [err |-> ErrNone, l |-> l]
  ELSE LET got == getData(store, tname, l.head)
       IN IF got.err
          THEN [err |-> ErrInternalError, l |-> l]
          ELSE IF l.recycle = 0
          THEN [err |-> Ok, id |-> l.head, data |-> got.data,
                l |-> [l EXCEPT !.head = @ + 1, !.ihead = @ + 1]]
          ELSE [err |-> Ok, id |-> l.head, data |-> got.data,
                l |-> [l EXCEPT !.head = @ + 1,
                                !.inflight = Append(@, [Tid |-> l.head,
                                                       Exptime |-> clock + l.recycle]),
                                !.imap = MapPut(@, l.head, TRUE)]]

RECURSIVE sweepIhead(_)
\* while ihead < head and imap[ihead] == false: erase imap[ihead], ihead++
sweepIhead(l) ==
  IF l.ihead < l.head /\ ~imapGet(l.imap, l.ihead)
  THEN sweepIhead([l EXCEPT !.imap = MapDelete(@, l.ihead), !.ihead = @ + 1])
  ELSE l

\* line.confirm
lineConfirm(l, id) ==
  IF id < l.ihead \/ id >= l.head
  THEN [err |-> ErrNotFound, l |-> l]
  ELSE IF ~\E i \in 1..Len(l.inflight) : l.inflight[i].Tid = id
  THEN [err |-> ErrNotFound, l |-> l]
  ELSE [err |-> Ok,
        l |-> sweepIhead([l EXCEPT
                !.inflight = SelectSeq(@, LAMBDA m : m.Tid # id),
                !.imap = MapPut(@, id, FALSE)])]

\* line.empty
lineEmpty(l) == [l EXCEPT !.ihead = l.head, !.inflight = <<>>, !.imap = <<>>]

----------------------------------------------------------------------------
(* topic.  A topic is a record                                              *)
(*   [head, tail, lines, linesLock, headLock, tailLock]                     *)
(* lines is the map line name -> line.  A sync.RWMutex is 0 when free, -1   *)
(* when held for writing and n > 0 when held by n readers.                  *)
(*                                                                          *)
(* A handler that calls the storage takes a parameter fail: the position of *)
(* the storage call that returns an error in this run, 0 for none.          *)

headKey(tname) == tname \o KeyTopicHead

tailKey(tname) == tname \o KeyTopicTail

\* topic.exportHead
exportHead(store, tname, t) == Set(store, headKey(tname), PutUint64(t.head))

\* topic.exportTail
exportTail(store, tname, t) == Set(store, tailKey(tname), PutUint64(t.tail))

\* topic.genTopicStore: the names of the lines map (in map order: a set)
genTopicStore(t) == [Lines |-> DOMAIN t.lines]

\* topic.exportTopic
exportTopic(store, tname, t) ==
  Set(store, tname, GobEncode("topicStore", genTopicStore(t)))

\* topic.newLine: the cursors start at t.head, read without the head lock
newLine(t, store, tname, name, recycle, fail) ==
  LET l == [head |-> t.head, ihead |-> t.head, recycle |-> recycle,
            inflight |-> <<>>, imap |-> <<>>]
      s1 == exportLine(store, tname, name, l)
  IN IF fail = 1 THEN [err |-> ErrInternalError, store |-> store]
     ELSE IF fail = 2 THEN [err |-> ErrInternalError, store |-> s1]
     ELSE [err |-> Ok, store |-> exportRecycle(s1, tname, name, l), l |-> l]

\* topic.push, under the tail lock
push(t, store, tname, data, fail) ==
  LET key == Acatui(tname, ":", t.tail)
      s1 == Set(store, key, data)
      t1 == [t EXCEPT !.tail = @ + 1]
  IN IF fail = 1 THEN [err |-> ErrInternalError, t |-> t, store |-> store]
     ELSE IF fail = 2
     THEN [err |-> ErrInternalError, t |-> [t1 EXCEPT !.tail = @ - 1], store |-> s1]
     ELSE [err |-> Ok, t |-> t1, store |-> exportTail(s1, tname, t1)]

\* One round of the loop of topic.mPush, on payload i of the batch.
\* call is [datas, i, oldTail]; done tells that mPush returns here.
mPushLoop(t, store, tname, call, fail) ==
  LET data == call.datas[call.i]
      key == Acatui(tname, ":", t.tail)
  IN IF Len(data) <= 0
     THEN [done |-> TRUE, err |-> ErrBadRequest, t |-> t, store |-> store]
     ELSE IF fail = 1
     THEN [done |-> TRUE, err |-> ErrInternalError,
           t |-> [t EXCEPT !.tail = call.oldTail], store |-> store]
     ELSE [done |-> FALSE, err |-> Ok,
           t |-> [t EXCEPT !.tail = @ + 1], store |-> Set(store, key, data)]

\* The end of topic.mPush, after the loop: the tail anchor is written
mPushExport(t, store, tname, call, fail) ==
  IF fail = 1
  THEN [err |-> ErrInternalError, t |-> [t EXCEPT !.tail = call.oldTail],
        store |-> store]
  ELSE [err |-> Ok, t |-> t, store |-> exportTail(store, tname, t)]

\* topic.pop
pop(t, store, tname, name, clock) ==
  IF name \notin DOMAIN t.lines
  THEN [err |-> ErrLineNotExisted, t |-> t]
  ELSE LET r == linePop(t.lines[name], store, tname, t.tail, clock)
       IN IF r.err = Ok
          THEN [err |-> Ok, id |-> r.id, data |-> r.data,
                t |-> [t EXCEPT !.lines[name] = r.l]]
          ELSE [err |-> r.err, t |-> t]

\* topic.confirm that replies as line.confirm does and keeps the line as it was
confirm_lineUntouched(t, name, id) ==
  IF name \notin DOMAIN t.lines
  THEN [err |-> ErrLineNotExisted, t |-> t]
  ELSE [err |-> lineConfirm(t.lines[name], id).err, t |-> t]

\* topic.confirm
confirm(t, name, id) ==
  IF name \notin DOMAIN t.lines
  THEN [err |-> ErrLineNotExisted, t |-> t]
  ELSE LET r == lineConfirm(t.lines[name], id)
       IN [err |-> r.err, t |-> [t EXCEPT !.lines[name] = r.l]]

\* topic.emptyLine
emptyLine(t, name) ==
  IF name \notin DOMAIN t.lines
  THEN [err |-> ErrLineNotExisted, t |-> t]
  ELSE [err |-> Ok, t |-> [t EXCEPT !.lines[name] = lineEmpty(@)]]

\* topic.empty that leaves the head of the topic where it is
empty_headUntouched(t, store, tname, fail) ==
  LET t1 == [t EXCEPT !.lines = [n \in DOMAIN t.lines |-> lineEmpty(t.lines[n])]]
  IN IF fail = 1 THEN [err |-> ErrInternalError, t |-> t1, store |-> store]
     ELSE [err |-> Ok, t |-> t1, store |-> exportHead(store, tname, t1)]

\* topic.empty: every line is emptied, then head = tail and the head anchor
\* is written
empty(t, store, tname, fail) ==
  LET t1 == [t EXCEPT !.lines = [n \in DOMAIN t.lines |-> lineEmpty(t.lines[n])],
                      !.head = t.tail]
  IN IF fail = 1 THEN [err |-> ErrInternalError, t |-> t1, store |-> store]
     ELSE [err |-> Ok, t |-> t1, store |-> exportHead(store, tname, t1)]

Min(a, b) == IF a < b THEN a ELSE b

RECURSIVE minFrontier(_, _, _)
\* the loop of getEnd over the lines in names, starting from end
minFrontier(t, names, end) ==
  IF names = {} THEN end
  ELSE LET n == CHOOSE x \in names : TRUE
           l == t.lines[n]
       IN minFrontier(t, names \ {n},
                      IF l.recycle > 0 THEN Min(l.ihead, end) ELSE Min(l.head, end))

\* a getEnd that looks at the tail alone
getEnd_tailOnly(t) ==
  IF Cardinality(DOMAIN t.lines) = 0 THEN t.head ELSE t.tail

\* topic.getEnd: reads t.lines and t.tail under the head lock alone
getEnd(t) ==
  IF Cardinality(DOMAIN t.lines) = 0 THEN t.head
  ELSE minFrontier(t, DOMAIN t.lines, t.tail)

\* One round of the loop of topic.clean: delete the message at head, advance
\* head, write the head anchor.  done tells that clean returns here.
cleanLoop(t, store, tname, fail) ==
  LET s1 == Del(store, Acatui(tname, ":", t.head))
      t1 == [t EXCEPT !.head = @ + 1]
  IN IF fail = 1 THEN [done |-> TRUE, t |-> t, store |-> store]
     ELSE IF fail = 2 THEN [done |-> TRUE, t |-> t1, store |-> s1]
     ELSE [done |-> FALSE, t |-> t1, store |-> exportHead(s1, tname, t1)]

RECURSIVE exportLinesOf(_, _, _, _, _)
\* the loop of topic.exportLines over the lines in names; the write of a key
\* in failing returns an error, which is logged
exportLinesOf(t, store, tname, names, failing) ==
  IF names = {} THEN store
  ELSE LET n == CHOOSE x \in names : TRUE
       IN exportLinesOf(t,
                        IF lineStoreKey(tname, n) \in failing THEN store
                        ELSE exportLine(store, tname, n, t.lines[n]),
                        tname, names \ {n}, failing)

\* topic.exportLines
exportLines(t, store, tname, failing) ==
  exportLinesOf(t, store, tname, DOMAIN t.lines, failing)

----------------------------------------------------------------------------
(* UnitedQueue *)

\* bytes of length 0
NoBytes == <<>>

\* loadLine with the ihead of the line taken from the recorded head
loadLine_iheadFromHead(store, tname, lname, lineStoreValue) ==
  LET lineRecycleData == Get(store, recycleKey(tname, lname))
  IN IF lineRecycleData.err THEN [err |-> TRUE]
     ELSE LET lineRecycle == ParseDuration(lineRecycleData.data)
              tids == {lineStoreValue.Inflights[i].Tid :
                         i \in 1..Len(lineStoreValue.Inflights)}
          IN IF lineRecycle.err THEN [err |-> TRUE]
             ELSE [err |-> FALSE,
                   l |-> [head |-> lineStoreValue.Head,
                          ihead |-> lineStoreValue.Head,
                          recycle |-> lineRecycle.d,
                          inflight |-> lineStoreValue.Inflights,
                          imap |-> [i \in (lineStoreValue.Head ..
                                           lineStoreValue.Head - 1) \cup tids
                                      |-> i \in tids]]]

\* a loadLine that leaves every entry of the rebuilt imap false
loadLine_imapUnmarked(store, tname, lname, lineStoreValue) ==
  LET lineRecycleData == Get(store, recycleKey(tname, lname))
  IN IF lineRecycleData.err THEN [err |-> TRUE]
     ELSE LET lineRecycle == ParseDuration(lineRecycleData.data)
          IN IF lineRecycle.err THEN [err |-> TRUE]
             ELSE [err |-> FALSE,
                   l |-> [head |-> lineStoreValue.Head,
                          ihead |-> lineStoreValue.Ihead,
                          recycle |-> lineRecycle.d,
                          inflight |-> lineStoreValue.Inflights,
                          imap |-> [i \in lineStoreValue.Ihead ..
                                           lineStoreValue.Head - 1 |-> FALSE]]]

\* topic.loadLine: the line rebuilt from its catalog and its recycle key
loadLine(store, tname, lname, lineStoreValue) ==
  LET lineRecycleData == Get(store, recycleKey(tname, lname))
  IN IF lineRecycleData.err THEN [err |-> TRUE]
     ELSE LET lineRecycle == ParseDuration(lineRecycleData.data)
              tids == {lineStoreValue.Inflights[i].Tid :
                         i \in 1..Len(lineStoreValue.Inflights)}
          IN IF lineRecycle.err THEN [err |-> TRUE]
             ELSE [err |-> FALSE,
                   l |-> [head |-> lineStoreValue.Head,
                          ihead |-> lineStoreValue.Ihead,
                          recycle |-> lineRecycle.d,
                          inflight |-> lineStoreValue.Inflights,
                          imap |-> [i \in (lineStoreValue.Ihead ..
                                           lineStoreValue.Head - 1) \cup tids
                                      |-> i \in tids]]]

\* the lines of topicStoreValue that loadTopic loads: a listed line is
\* skipped when its catalog is missing, empty or undecodable, or when
\* loadLine fails
loadedLine(store, tname, lname) ==
  LET lineStoreData == Get(store, lineStoreKey(tname, lname))
  IN IF lineStoreData.err THEN [err |-> TRUE]
     ELSE IF lineStoreData.data = NoBytes THEN [err |-> TRUE]
     ELSE LET dec == GobDecode("lineStore", lineStoreData.data)
          IN IF dec.err THEN [err |-> TRUE]
             ELSE loadLine(store, tname, lname, dec.value)

\* loadTopic with a missing tail anchor read as 0
loadTopic_missingTailIsZero(store, tname, topicStoreValue) ==
  LET topicHeadData == Get(store, headKey(tname))
      topicTailData == Get(store, tailKey(tname))
      names == {n \in topicStoreValue.Lines : ~loadedLine(store, tname, n).err}
  IN IF topicHeadData.err THEN [err |-> TRUE]
     ELSE [err |-> FALSE,
           t |-> [head |-> Uint64(topicHeadData.data),
                  tail |-> IF topicTailData.err THEN 0 ELSE Uint64(topicTailData.data),
                  lines |-> [n \in names |-> loadedLine(store, tname, n).l],
                  linesLock |-> 0, headLock |-> 0, tailLock |-> 0]]

\* UnitedQueue.loadTopic
loadTopic(store, tname, topicStoreValue) ==
  LET topicHeadData == Get(store, headKey(tname))
      topicTailData == Get(store, tailKey(tname))
      names == {n \in topicStoreValue.Lines : ~loadedLine(store, tname, n).err}
  IN IF topicHeadData.err THEN [err |-> TRUE]
     ELSE IF topicTailData.err THEN [err |-> TRUE]
     ELSE [err |-> FALSE,
           t |-> [head |-> Uint64(topicHeadData.data),
                  tail |-> Uint64(topicTailData.data),
                  lines |-> [n \in names |-> loadedLine(store, tname, n).l],
                  linesLock |-> 0, headLock |-> 0, tailLock |-> 0]]

\* the topic loadQueue builds for a listed name, or err when it is skipped
loadedTopic(store, tname) ==
  LET topicStoreData == Get(store, tname)
  IN IF topicStoreData.err THEN [err |-> TRUE]
     ELSE IF topicStoreData.data = NoBytes THEN [err |-> TRUE]
     ELSE LET dec == GobDecode("topicStore", topicStoreData.data)
          IN IF dec.err THEN [err |-> TRUE]
             ELSE loadTopic(store, tname, dec.value)

\* UnitedQueue.loadQueue: the error it returns and the topics map it fills
loadQueue(store) ==
  LET unitedQueueStoreData == Get(store, StorageKeyWord)
  IN IF unitedQueueStoreData.err THEN [err |-> FALSE, topics |-> <<>>]
     ELSE IF unitedQueueStoreData.data = NoBytes THEN [err |-> FALSE, topics |-> <<>>]
     ELSE LET dec == GobDecode("unitedQueueStore", unitedQueueStoreData.data)
          IN IF dec.err THEN [err |-> FALSE, topics |-> <<>>]
             ELSE LET names == {n \in dec.value.Topics : ~loadedTopic(store, n).err}
                  IN [err |-> FALSE,
                      topics |-> [n \in names |-> loadedTopic(store, n).t]]

\* UnitedQueue.genQueueStore
genQueueStore(tps) == [Topics |-> DOMAIN tps]

\* UnitedQueue.exportQueue
exportQueue(store, tps) ==
  Set(store, StorageKeyWord, GobEncode("unitedQueueStore", genQueueStore(tps)))

\* UnitedQueue.newTopic
newTopic(store, name, fail) ==
  LET t == [head |-> 0, tail |-> 0, lines |-> <<>>,
            linesLock |-> 0, headLock |-> 0, tailLock |-> 0]
      s1 == exportHead(store, name, t)
  IN IF fail = 1 THEN [err |-> ErrInternalError, store |-> store]
     ELSE IF fail = 2 THEN [err |-> ErrInternalError, store |-> s1]
     ELSE [err |-> Ok, store |-> exportTail(s1, name, t), t |-> t]

\* UnitedQueue.createTopic after its lookup: newTopic (which starts the
\* worker of the new topic), the insert into u.topics, exportQueue, and the
\* delete from u.topics when exportQueue fails
createTopicInsert(tps, store, name, fail) ==
  LET r == newTopic(store, name, fail)
  IN IF r.err # Ok
     THEN [err |-> r.err, topics |-> tps, store |-> r.store, started |-> FALSE]
     ELSE IF fail = 3
     THEN [err |-> ErrInternalError, topics |-> MapDelete(tps, name),
           store |-> r.store, started |-> TRUE]
     ELSE [err |-> Ok, topics |-> MapPut(tps, name, r.t),
           store |-> exportQueue(r.store, MapPut(tps, name, r.t)),
           started |-> TRUE]

\* UnitedQueue.createTopic
createTopic(tps, store, name, fail) ==
  IF name \in DOMAIN tps
  THEN [err |-> ErrTopicExisted, topics |-> tps, store |-> store, started |-> FALSE]
  ELSE createTopicInsert(tps, store, name, fail)

RECURSIVE exportTopicsOf(_, _, _, _)
\* the loop of UnitedQueue.exportTopics over the topics in names
exportTopicsOf(tps, store, names, failing) ==
  IF names = {} THEN store
  ELSE LET n == CHOOSE x \in names : TRUE
           s1 == exportLines(tps[n], store, n, failing)
       IN exportTopicsOf(tps,
                         IF n \in failing THEN s1 ELSE exportTopic(s1, n, tps[n]),
                         names \ {n}, failing)

\* UnitedQueue.exportTopics
exportTopics(tps, store, failing) == exportTopicsOf(tps, store, DOMAIN tps, failing)

\* the keys exportTopics writes
exportTopicsKeys(tps) ==
  DOMAIN tps \cup UNION {{lineStoreKey(n, l) : l \in DOMAIN tps[n].lines} : n \in DOMAIN tps}

----------------------------------------------------------------------------
(* The state after NewUnitedQueue on an empty storage *)

Init ==
  /\ kv = <<>>
  /\ topics = <<>>
  /\ worker = <<>>
  /\ creating = <<>>
  /\ pushing = <<>>
  /\ now = 0
  /\ phase = "running"
  /\ saved = <<>>
  /\ kvErrors = 0
  /\ calls = <<>>
  /\ shutdown = <<>>

\* the positions at which a handler making k storage calls may see an error
Fails(k) == IF kvErrors < MaxKVErrors THEN 0..k ELSE {0}

Failed(fail) == kvErrors' = kvErrors + (IF fail = 0 THEN 0 ELSE 1)

Idle == [pc |-> "idle", ending |-> 0]

RECURSIVE BatchesOf(_, _)
\* the sequences of at most n payloads of P
BatchesOf(P, n) ==
  IF n = 0 THEN {<<>>}
  ELSE {<<d>> \o b : d \in P, b \in BatchesOf(P, n - 1)} \cup BatchesOf(P, n - 1)

\* the batches a client hands to MultiPush: a payload may be empty
Batches == BatchesOf(Payloads \cup {""}, MaxBatch)

----------------------------------------------------------------------------
(* Client requests *)

\* UnitedQueue.Create of a topic
CreateTopic(name) ==
  /\ phase = "running"
  /\ name \notin DOMAIN topics
  /\ \E fail \in Fails(3) :
       LET r == createTopic(topics, kv, name, fail)
       IN /\ topics' = r.topics
          /\ kv' = r.store
          /\ worker' = IF r.err = Ok THEN MapPut(worker, name, Idle) ELSE worker
          /\ Failed(fail)
  /\ UNCHANGED <<shutdown, calls, creating, pushing, now, phase, saved>>

\* topic.createLine up to the return of newLine; the lines lock stays held
CreateLineBegin(tname, name, recycle) ==
  /\ phase = "running"
  /\ tname \in DOMAIN topics
  /\ topics[tname].linesLock = 0
  /\ name \notin DOMAIN topics[tname].lines
  /\ \E fail \in Fails(2) :
       LET r == newLine(topics[tname], kv, tname, name, recycle, fail)
       IN /\ kv' = r.store
          /\ IF r.err = Ok
             THEN /\ topics' = [topics EXCEPT ![tname].linesLock = -1]
                  /\ creating' = MapPut(creating, tname,
                                        [name |-> name, l |-> r.l, blocked |-> FALSE])
             ELSE UNCHANGED <<topics, creating>>
          /\ Failed(fail)
  /\ UNCHANGED <<shutdown, calls, worker, pushing, now, phase, saved>>

\* topic.createLine from the insert into t.lines on.  When exportTopic fails
\* the handler calls linesLock.Lock() while it holds that lock: it never
\* returns, and the lock stays held.
CreateLineEnd(tname) ==
  /\ phase = "running"
  /\ tname \in DOMAIN creating
  /\ ~creating[tname].blocked
  /\ \E fail \in Fails(1) :
       LET c == creating[tname]
           t1 == [topics[tname] EXCEPT !.lines = MapPut(@, c.name, c.l)]
       IN /\ IF fail = 1
             THEN /\ topics' = [topics EXCEPT ![tname] = t1]
                  /\ kv' = kv
                  /\ creating' = [creating EXCEPT ![tname].blocked = TRUE]
             ELSE /\ topics' = [topics EXCEPT ![tname] = [t1 EXCEPT !.linesLock = 0]]
                  /\ kv' = exportTopic(kv, tname, t1)
                  /\ creating' = MapDelete(creating, tname)
          /\ Failed(fail)
  /\ UNCHANGED <<shutdown, calls, worker, pushing, now, phase, saved>>

\* UnitedQueue.Push
Push(tname, data) ==
  /\ phase = "running"
  /\ tname \in DOMAIN topics
  /\ topics[tname].tailLock = 0
  /\ topics[tname].tail < MaxTail
  /\ \E fail \in Fails(2) :
       LET r == push(topics[tname], kv, tname, data, fail)
       IN /\ topics' = [topics EXCEPT ![tname] = r.t]
          /\ kv' = r.store
          /\ Failed(fail)
  /\ UNCHANGED <<shutdown, calls, worker, creating, pushing, now, phase, saved>>

\* UnitedQueue.MultiPush up to the loop of topic.mPush: the tail lock is taken.
\* seen collects the values of t.tail loaded without the lock during the call.
MPushBegin(tname, datas) ==
  /\ phase = "running"
  /\ tname \in DOMAIN topics
  /\ topics[tname].tailLock = 0
  /\ datas # <<>>
  /\ topics[tname].tail + Len(datas) <= MaxTail
  /\ topics' = [topics EXCEPT ![tname].tailLock = -1]
  /\ pushing' = MapPut(pushing, tname,
                       [datas |-> datas, i |-> 1, oldTail |-> topics[tname].tail,
                        seen |-> {}])
  /\ UNCHANGED <<shutdown, calls, kv, worker, creating, now, phase, saved, kvErrors>>

\* one round of the loop of topic.mPush
MPushLoop(tname) ==
  /\ phase = "running"
  /\ tname \in DOMAIN pushing
  /\ pushing[tname].i <= Len(pushing[tname].datas)
  /\ \E fail \in Fails(IF pushing[tname].datas[pushing[tname].i] = "" THEN 0 ELSE 1) :
       LET r == mPushLoop(topics[tname], kv, tname, pushing[tname], fail)
       IN /\ kv' = r.store
          /\ IF r.done
             THEN /\ topics' = [topics EXCEPT ![tname] = [r.t EXCEPT !.tailLock = 0]]
                  /\ pushing' = MapDelete(pushing, tname)
             ELSE /\ topics' = [topics EXCEPT ![tname] = r.t]
                  /\ pushing' = [pushing EXCEPT ![tname].i = @ + 1]
          /\ Failed(fail)
  /\ UNCHANGED <<shutdown, calls, worker, creating, now, phase, saved>>

\* the end of topic.mPush
MPushExport(tname) ==
  /\ phase = "running"
  /\ tname \in DOMAIN pushing
  /\ pushing[tname].i > Len(pushing[tname].datas)
  /\ \E fail \in Fails(1) :
       LET r == mPushExport(topics[tname], kv, tname, pushing[tname], fail)
       IN /\ kv' = r.store
          /\ topics' = [topics EXCEPT ![tname] = [r.t EXCEPT !.tailLock = 0]]
          /\ Failed(fail)
  /\ pushing' = MapDelete(pushing, tname)
  /\ UNCHANGED <<shutdown, calls, worker, creating, now, phase, saved>>

\* UnitedQueue.Pop of "tname/name": the line is looked up under the lines
\* read lock; the delivery of a new message reads the tail under the tail lock
Pop(tname, name) ==
  /\ phase = "running"
  /\ tname \in DOMAIN topics
  /\ topics[tname].linesLock >= 0
  /\ topics[tname].tailLock >= 0
  /\ topics' = [topics EXCEPT ![tname] = pop(@, kv, tname, name, now).t]
  /\ UNCHANGED <<shutdown, calls, kv, worker, creating, pushing, now, phase, saved, kvErrors>>

\* UnitedQueue.Confirm of "tname/name/id"
Confirm(tname, name, id) ==
  /\ phase = "running"
  /\ tname \in DOMAIN topics
  /\ topics[tname].linesLock >= 0
  /\ topics' = [topics EXCEPT ![tname] = confirm(@, name, id).t]
  /\ UNCHANGED <<shutdown, calls, kv, worker, creating, pushing, now, phase, saved, kvErrors>>

\* UnitedQueue.Empty of "tname/name"
EmptyLine(tname, name) ==
  /\ phase = "running"
  /\ tname \in DOMAIN topics
  /\ topics[tname].linesLock >= 0
  /\ topics' = [topics EXCEPT ![tname] = emptyLine(@, name).t]
  /\ UNCHANGED <<shutdown, calls, kv, worker, creating, pushing, now, phase, saved, kvErrors>>

\* UnitedQueue.Empty of "tname": lines read lock, head lock, tail read lock
Empty(tname) ==
  /\ phase = "running"
  /\ tname \in DOMAIN topics
  /\ topics[tname].linesLock >= 0
  /\ topics[tname].headLock = 0
  /\ topics[tname].tailLock >= 0
  /\ \E fail \in Fails(1) :
       LET r == empty(topics[tname], kv, tname, fail)
       IN /\ topics' = [topics EXCEPT ![tname] = r.t]
          /\ kv' = r.store
          /\ Failed(fail)
  /\ UNCHANGED <<shutdown, calls, worker, creating, pushing, now, phase, saved>>

----------------------------------------------------------------------------
(* The background worker of a topic (topic.backgroundClean) *)

\* clean tick: topic.clean takes the head lock and computes its bound.
\* getEnd loads t.tail when the topic has lines, whoever holds the tail lock.
CleanBegin(tname) ==
  /\ phase = "running"
  /\ tname \in DOMAIN worker
  /\ worker[tname].pc = "idle"
  /\ topics[tname].headLock = 0
  /\ topics' = [topics EXCEPT ![tname].headLock = -1]
  /\ worker' = [worker EXCEPT ![tname] = [pc |-> "clean", ending |-> getEnd(topics[tname])]]
  /\ pushing' = IF tname \in DOMAIN pushing /\ DOMAIN topics[tname].lines # {}
                THEN [pushing EXCEPT ![tname].seen = @ \cup {topics[tname].tail}]
                ELSE pushing
  /\ UNCHANGED <<shutdown, calls, kv, creating, now, phase, saved, kvErrors>>

\* one round of the loop of topic.clean
CleanLoop(tname) ==
  /\ phase = "running"
  /\ tname \in DOMAIN worker
  /\ worker[tname].pc = "clean"
  /\ topics[tname].head < worker[tname].ending
  /\ \E fail \in Fails(2) :
       LET r == cleanLoop(topics[tname], kv, tname, fail)
       IN /\ kv' = r.store
          /\ IF r.done
             THEN /\ topics' = [topics EXCEPT ![tname] = [r.t EXCEPT !.headLock = 0]]
                  /\ worker' = [worker EXCEPT ![tname] = Idle]
             ELSE /\ topics' = [topics EXCEPT ![tname] = r.t]
                  /\ worker' = worker
          /\ Failed(fail)
  /\ UNCHANGED <<shutdown, calls, creating, pushing, now, phase, saved>>

\* topic.clean returns: the bound is reached, the deadline has passed or the
\* quit channel is closed
CleanReturn(tname) ==
  /\ phase = "running"
  /\ tname \in DOMAIN worker
  /\ worker[tname].pc = "clean"
  /\ topics' = [topics EXCEPT ![tname].headLock = 0]
  /\ worker' = [worker EXCEPT ![tname] = Idle]
  /\ UNCHANGED <<shutdown, calls, kv, creating, pushing, now, phase, saved, kvErrors>>

\* backup tick: topic.exportLines under the lines read lock
Backup(tname) ==
  /\ phase = "running"
  /\ tname \in DOMAIN worker
  /\ worker[tname].pc = "idle"
  /\ topics[tname].linesLock >= 0
  /\ \E failing \in SUBSET {lineStoreKey(tname, n) : n \in DOMAIN topics[tname].lines} :
       /\ kvErrors + Cardinality(failing) <= MaxKVErrors
       /\ kv' = exportLines(topics[tname], kv, tname, failing)
       /\ kvErrors' = kvErrors + Cardinality(failing)
  /\ UNCHANGED <<shutdown, calls, topics, worker, creating, pushing, now, phase, saved>>

----------------------------------------------------------------------------
(* Stop and restart of the process *)

\* UnitedQueue.Close, called when no request is in progress: every worker is
\* stopped and joined, the catalogs are written, the storage is closed
Close ==
  /\ phase = "running"
  /\ creating = <<>> /\ pushing = <<>>
  /\ \A n \in DOMAIN worker : worker[n].pc = "idle"
  /\ \E failing \in SUBSET exportTopicsKeys(topics) :
       /\ kvErrors + Cardinality(failing) <= MaxKVErrors
       /\ kv' = exportTopics(topics, kv, failing)
       /\ kvErrors' = kvErrors + Cardinality(failing)
  /\ phase' = "closed"
  /\ saved' = topics
  /\ topics' = <<>> /\ worker' = <<>>
  /\ UNCHANGED <<shutdown, calls, creating, pushing, now>>

\* the process stops without Close: the storage keeps the writes that returned
Crash ==
  /\ phase = "running"
  /\ phase' = "crashed"
  /\ saved' = topics
  /\ topics' = <<>> /\ worker' = <<>> /\ creating' = <<>> /\ pushing' = <<>>
  /\ UNCHANGED <<shutdown, calls, kv, now, kvErrors>>

\* NewUnitedQueue on the storage left behind: loadQueue, and a worker is
\* started for every topic loadTopic returns
NewUnitedQueue ==
  /\ phase \in {"closed", "crashed"}
  /\ LET r == loadQueue(kv)
     IN /\ topics' = r.topics
        /\ worker' = [n \in DOMAIN r.topics |-> Idle]
        /\ phase' = IF r.err THEN "failed"
                     ELSE IF phase = "closed" THEN "reopened" ELSE "recovered"
  /\ UNCHANGED <<shutdown, calls, kv, creating, pushing, now, saved, kvErrors>>

----------------------------------------------------------------------------
(* Specifications *)

\* the requests of clients, with the batches they hand to MultiPush
RequestsWith(batches) ==
  \/ \E name \in ReqTopics : CreateTopic(name)
  \/ \E tname \in ReqTopics, name \in LineNames, recycle \in Recycles :
       CreateLineBegin(tname, name, recycle)
  \/ \E tname \in ReqTopics : CreateLineEnd(tname)
  \/ \E tname \in ReqTopics, data \in Payloads : Push(tname, data)
  \/ \E tname \in ReqTopics, datas \in batches : MPushBegin(tname, datas)
  \/ \E tname \in ReqTopics : MPushLoop(tname)
  \/ \E tname \in ReqTopics : MPushExport(tname)
  \/ \E tname \in ReqTopics, name \in LineNames : Pop(tname, name)
  \/ \E tname \in ReqTopics, name \in LineNames, id \in 0..MaxTail - 1 :
       Confirm(tname, name, id)
  \/ \E tname \in ReqTopics, name \in LineNames : EmptyLine(tname, name)
  \/ \E tname \in ReqTopics : Empty(tname)

Requests == RequestsWith(Batches)

\* the clean passes of the workers
Cleaning ==
  \/ \E tname \in ReqTopics : CleanBegin(tname)
  \/ \E tname \in ReqTopics : CleanLoop(tname)
  \/ \E tname \in ReqTopics : CleanReturn(tname)

\* The running broker: requests interleaved with clean passes
Next == Requests \/ Cleaning

Spec == Init /\ [][Next]_vars

\* The broker with backups, followed through one stop (Close or a crash) and
\* the restart from the storage left behind
NextRestart ==
  \/ Requests
  \/ Cleaning
  \/ \E tname \in ReqTopics : Backup(tname)
  \/ Close
  \/ Crash
  \/ NewUnitedQueue

SpecRestart == Init /\ [][NextRestart]_vars

\* The broker on a storage that returns no error, serving requests whose
\* payloads are not empty, followed through Close and the restart
InitHealthy ==
  /\ kv = <<>>
  /\ topics = <<>>
  /\ worker = <<>>
  /\ creating = <<>>
  /\ pushing = <<>>
  /\ now = 0
  /\ phase = "running"
  /\ saved = <<>>
  /\ kvErrors = MaxKVErrors
  /\ calls = <<>>
  /\ shutdown = <<>>

NextRoundTrip ==
  \/ RequestsWith(BatchesOf(Payloads, MaxBatch))
  \/ Cleaning
  \/ \E tname \in ReqTopics : Backup(tname)
  \/ Close
  \/ NewUnitedQueue

SpecRoundTrip == InitHealthy /\ [][NextRoundTrip]_vars

----------------------------------------------------------------------------
(* The start of a broker on a storage that has lost or garbled entries *)

MaxMissing == 2     \* keys missing from the storage found
MaxGarbled == 1     \* keys of the storage found whose value is garbled

\* a broker of two topics with two lines each: two messages pushed, L1
\* (recycle 0) has popped one, L2 has popped both and confirmed id 1
SampleTopic ==
  [head |-> 0, tail |-> 2,
   lines |-> ("L1" :> [head |-> 1, ihead |-> 1, recycle |-> 0,
                       inflight |-> <<>>, imap |-> <<>>])
          @@ ("L2" :> [head |-> 2, ihead |-> 0, recycle |-> RecycleSecs,
                       inflight |-> <<[Tid |-> 0, Exptime |-> RecycleSecs]>>,
                       imap |-> (0 :> TRUE) @@ (1 :> FALSE)]),
   linesLock |-> 0, headLock |-> 0, tailLock |-> 0]

SampleTopics == [n \in TopicNames |-> SampleTopic]

RECURSIVE sampleStoreOf(_, _)
\* the anchors, recycle keys and payloads of the topics in names
sampleStoreOf(names, store) ==
  IF names = {} THEN store
  ELSE LET n == CHOOSE x \in names : TRUE
           t == SampleTopics[n]
           s1 == exportTail(exportHead(store, n, t), n, t)
           s2 == exportRecycle(exportRecycle(s1, n, "L1", t.lines["L1"]),
                               n, "L2", t.lines["L2"])
           s3 == Set(Set(s2, Acatui(n, ":", 0), "a"), Acatui(n, ":", 1), "b")
       IN sampleStoreOf(names \ {n}, s3)

\* the storage the sample broker leaves behind
SampleStore ==
  exportQueue(exportTopics(SampleTopics, sampleStoreOf(TopicNames, <<>>), {}),
              SampleTopics)

CatalogKeys ==
  {StorageKeyWord} \cup TopicNames
    \cup {lineStoreKey(n, l) : n \in TopicNames, l \in LineNames}

RecycleKeys == {recycleKey(n, l) : n \in TopicNames, l \in LineNames}

AnchorKeys == {headKey(n) : n \in TopicNames} \cup {tailKey(n) : n \in TopicNames}

\* the sample storage without the keys in missing, the values of the keys in
\* garbled being no catalog (no duration), those in emptied being of length 0
Damaged(missing, garbled, emptied) ==
  [k \in DOMAIN SampleStore \ missing |->
     IF k \in garbled
     THEN (IF k \in RecycleKeys THEN "2 secs" ELSE GobEncode("junk", <<>>))
     ELSE IF k \in emptied
     THEN (IF k \in RecycleKeys THEN "" ELSE NoBytes)
     ELSE SampleStore[k]]

RECURSIVE SubsetsUpTo(_, _)
\* the subsets of S of at most n elements
SubsetsUpTo(S, n) ==
  IF n = 0 THEN {{}}
  ELSE LET smaller == SubsetsUpTo(S, n - 1)
       IN smaller \cup {A \cup {x} : A \in smaller, x \in S}

InitLoad ==
  /\ \E missing \in SubsetsUpTo(CatalogKeys \cup RecycleKeys \cup AnchorKeys, MaxMissing),
        bad \in SubsetsUpTo(CatalogKeys \cup RecycleKeys, MaxGarbled) :
       \E garbled \in SUBSET bad :
         /\ missing \cap bad = {}
         /\ kv = Damaged(missing, garbled, bad \ garbled)
  /\ topics = <<>>
  /\ worker = <<>>
  /\ creating = <<>>
  /\ pushing = <<>>
  /\ now = 0
  /\ phase = "crashed"
  /\ saved = <<>>
  /\ kvErrors = 0
  /\ calls = <<>>
  /\ shutdown = <<>>

SpecLoad == InitLoad /\ [][NewUnitedQueue]_vars

----------------------------------------------------------------------------
(* Properties *)

\* the id up to which a line lets the topic reclaim
Frontier(l) == IF l.recycle > 0 THEN l.ihead ELSE l.head

Frontiers(t) == {Frontier(t.lines[n]) : n \in DOMAIN t.lines}

MinFrontier(t) == CHOOSE f \in Frontiers(t) : \A g \in Frontiers(t) : f <= g

Running(tn) == phase = "running" /\ tn \in DOMAIN topics

\* C1: in every state of a running topic that has at least one line,
\* head <= F <= tail, where F is the least frontier of its lines (ihead for a
\* line with recycle > 0, head otherwise); and no line has head or ihead
\* below the head of the topic.
C1_HeadFrontierTail ==
  \A tn \in DOMAIN topics :
    (Running(tn) /\ DOMAIN topics[tn].lines # {}) =>
      /\ topics[tn].head <= MinFrontier(topics[tn])
      /\ MinFrontier(topics[tn]) <= topics[tn].tail
      /\ \A n \in DOMAIN topics[tn].lines :
           /\ topics[tn].head <= topics[tn].lines[n].head
           /\ topics[tn].head <= topics[tn].lines[n].ihead

\* C2: in every state, for every line of a running topic, the payload key of
\* every id from the frontier of the line up to (excluding) the tail of the
\* topic is in the storage.
C2_PayloadsOfLinesKept ==
  \A tn \in DOMAIN topics :
    Running(tn) =>
      \A n \in DOMAIN topics[tn].lines :
        \A id \in Frontier(topics[tn].lines[n]) .. topics[tn].tail - 1 :
          Acatui(tn, ":", id) \in DOMAIN kv

\* C3: on a running topic whose locks are free, a push that returns ok
\* stores its payload at id = tail and makes tail the next id; and on every
\* line with recycle 0 a pop returns empty exactly when head = tail, and
\* otherwise returns (head, the payload stored at head) and moves the head of
\* the line to the next id.
C3_AutoAckFifo ==
  \A tn \in DOMAIN topics :
    (Running(tn) /\ topics[tn].tailLock = 0 /\ topics[tn].linesLock >= 0) =>
      LET t == topics[tn]
      IN /\ \A data \in Payloads :
              LET r == push(t, kv, tn, data, 0)
              IN /\ r.err = Ok
                 /\ Get(r.store, Acatui(tn, ":", t.tail)) = [err |-> FALSE, data |-> data]
                 /\ r.t.tail = t.tail + 1
         /\ \A n \in DOMAIN t.lines :
              t.lines[n].recycle = 0 =>
                LET r == pop(t, kv, tn, n, now)
                    l == t.lines[n]
                IN /\ (r.err = ErrNone) <=> (l.head = t.tail)
                   /\ l.head # t.tail =>
                        /\ r.err = Ok
                        /\ r.id = l.head
                        /\ Get(kv, Acatui(tn, ":", l.head)) = [err |-> FALSE, data |-> r.data]
                        /\ r.t.lines[n].head = l.head + 1

\* C4: in the step in which an mPush returns: if a storage call failed, tail
\* is the tail before the batch; if it succeeded, tail is the tail before the
\* batch plus the length of the batch, the ids of the batch hold its payloads
\* in order, and no value of tail loaded by another goroutine during the call
\* lies strictly between the two.
C4_MPushAllOrNothing ==
  [][\A tn \in DOMAIN pushing :
       tn \notin DOMAIN pushing' =>
         LET c == pushing[tn]
             n == Len(c.datas)
         IN /\ kvErrors' > kvErrors => topics'[tn].tail = c.oldTail
            /\ (c.i > n /\ kvErrors' = kvErrors) =>
                 /\ topics'[tn].tail = c.oldTail + n
                 /\ \A k \in 1..n :
                      Get(kv', Acatui(tn, ":", c.oldTail + k - 1))
                        = [err |-> FALSE, data |-> c.datas[k]]
                 /\ \A v \in c.seen : ~(c.oldTail < v /\ v < c.oldTail + n)]_vars

\* C5: in the step in which an mPush of a batch with an empty payload
\* returns, tail and the stored tail anchor are what they were before the
\* call (so that no payload of the batch can be delivered).
C5_MPushEmptyPayloadNoEffect ==
  [][\A tn \in DOMAIN pushing :
       (tn \notin DOMAIN pushing'
          /\ \E k \in 1..Len(pushing[tn].datas) : pushing[tn].datas[k] = "") =>
         /\ topics'[tn].tail = pushing[tn].oldTail
         /\ Get(kv', tailKey(tn)) = [err |-> FALSE, data |-> PutUint64(pushing[tn].oldTail)]]_vars

\* C6: on a running topic, whenever the tail lock is free the stored tail
\* anchor is the tail in memory, and whenever the head lock is free the stored
\* head anchor is the head in memory.
C6_AnchorsMatchMemory ==
  \A tn \in DOMAIN topics :
    Running(tn) =>
      /\ topics[tn].tailLock = 0 =>
           Get(kv, tailKey(tn)) = [err |-> FALSE, data |-> PutUint64(topics[tn].tail)]
      /\ topics[tn].headLock = 0 =>
           Get(kv, headKey(tn)) = [err |-> FALSE, data |-> PutUint64(topics[tn].head)]

\* C7: on a storage that returns no error and after requests whose payloads
\* are not empty, the broker reopened after Close has the topics it had at
\* Close, each with the same head and tail and the same lines, each line with
\* the same head, ihead, recycle, in-flight list and imap; a worker runs for
\* each of them; and a pop on any line returns what it would have returned
\* without the restart.
C7_RoundTrip ==
  phase = "reopened" =>
    /\ topics = saved
    /\ DOMAIN worker = DOMAIN saved
    /\ \A tn \in DOMAIN saved : \A n \in DOMAIN saved[tn].lines :
         /\ tn \in DOMAIN topics
         /\ pop(topics[tn], kv, tn, n, now) = pop(saved[tn], kv, tn, n, now)

\* a reopened broker whose topic is full, with a line that holds messages in
\* flight and an auto-ack line that has delivered
C7_Witness ==
  /\ phase = "reopened"
  /\ \E tn \in DOMAIN topics :
       /\ topics[tn].tail = MaxTail
       /\ \E n \in DOMAIN topics[tn].lines :
            /\ topics[tn].lines[n].inflight # <<>>
            /\ topics[tn].lines[n].ihead < topics[tn].lines[n].head
       /\ \E n \in DOMAIN topics[tn].lines :
            topics[tn].lines[n].recycle = 0 /\ topics[tn].lines[n].head > 0

\* every line of every topic of tps is in front of the head of its topic
InFront(tps) ==
  \A tn \in DOMAIN tps : \A n \in DOMAIN tps[tn].lines :
    /\ tps[tn].head <= tps[tn].lines[n].ihead
    /\ tps[tn].lines[n].ihead <= tps[tn].lines[n].head

\* C8: after the recovery from a crash of a broker whose lines were in front
\* of the heads of their topics, every loaded line has
\* topic.head <= ihead <= head, and the payload of every id from its ihead up
\* to the tail of the topic is in the storage.
C8_RecoveredLinesInFront ==
  (phase = "recovered" /\ InFront(saved)) =>
    /\ InFront(topics)
    /\ \A tn \in DOMAIN topics : \A n \in DOMAIN topics[tn].lines :
         \A id \in topics[tn].lines[n].ihead .. topics[tn].tail - 1 :
           Acatui(tn, ":", id) \in DOMAIN kv

\* C9: once the broker has loaded its storage, the head of every loaded line
\* is at most the tail of its topic.
C9_LoadedHeadAtMostTail ==
  phase \in {"recovered", "reopened"} =>
    \A tn \in DOMAIN topics : \A n \in DOMAIN topics[tn].lines :
      topics[tn].lines[n].head <= topics[tn].tail

\* what the storage found holds, read key by key
Present(k) == k \in DOMAIN kv

HoldsCatalog(k, type) == Present(k) /\ kv[k] # NoBytes /\ kv[k].gob = type

ListedTopics ==
  IF HoldsCatalog(StorageKeyWord, "unitedQueueStore")
  THEN kv[StorageKeyWord].value.Topics ELSE {}

TopicUsable(tn) ==
  /\ tn \in ListedTopics
  /\ HoldsCatalog(tn, "topicStore")
  /\ Present(tn \o ":head")
  /\ Present(tn \o ":tail")

LineUsable(tn, n) ==
  /\ n \in kv[tn].value.Lines
  /\ HoldsCatalog(tn \o "/" \o n, "lineStore")
  /\ Present(tn \o "/" \o n \o ":recycle")
  /\ \E d \in 0..RecycleSecs + 1 :
       kv[tn \o "/" \o n \o ":recycle"] = ToString(d) \o "s"

\* C10: the start of the broker never fails; without a broker catalog no
\* topic is loaded; the topics loaded, each with a worker, are the listed
\* topics whose catalog, head anchor and tail anchor are in the storage; and
\* the lines loaded for such a topic are the lines its catalog lists whose
\* catalog is in the storage and whose recycle value is there and parses.
C10_LoadSkipsPerEntity ==
  /\ phase # "failed"
  /\ phase = "recovered" =>
       /\ ~Present(StorageKeyWord) => topics = <<>>
       /\ DOMAIN topics = {tn \in TopicNames : TopicUsable(tn)}
       /\ DOMAIN worker = DOMAIN topics
       /\ \A tn \in DOMAIN topics :
            DOMAIN topics[tn].lines = {n \in LineNames : LineUsable(tn, n)}

\* a start in which a listed topic is skipped while another is loaded, and in
\* which a listed line of the loaded topic is skipped while another is loaded
C10_Witness ==
  /\ phase = "recovered"
  /\ \E t1 \in ListedTopics, t2 \in ListedTopics :
       /\ t1 \notin DOMAIN topics
       /\ t2 \in DOMAIN topics
       /\ \E n1 \in kv[t2].value.Lines, n2 \in kv[t2].value.Lines :
            /\ n1 \notin DOMAIN topics[t2].lines
            /\ n2 \in DOMAIN topics[t2].lines

----------------------------------------------------------------------------
(* Requests by key (UnitedQueue.Pop, MultiPop, Confirm, MultiConfirm).  A   *)
(* key is the sequence of its tokens: a token is "/" or a piece of a name   *)
(* or of a number.                                                          *)

MaxKeyLen == 5      \* tokens of a request key
MaxPop == 2         \* n of a MultiPop, ids of a MultiConfirm

KeyTokens == {"T1", "L1", "/", "0"}

RECURSIVE SeqsUpTo(_, _)
\* the sequences of at most n elements of S
SeqsUpTo(S, n) ==
  IF n = 0 THEN {<<>>}
  ELSE {<<x>> \o q : x \in S, q \in SeqsUpTo(S, n - 1)} \cup SeqsUpTo(S, n - 1)

Keys == SeqsUpTo(KeyTokens, MaxKeyLen)

RECURSIVE Split(_)
\* strings.Split(name, "/"): the parts between the separators, empty parts
\* included; a text without separator is one part
Split(name) ==
  IF name = <<>> THEN << <<>> >>
  ELSE LET rest == Split(Tail(name))
       IN IF Head(name) = "/"
          THEN << <<>> >> \o rest
          ELSE << <<Head(name)>> \o Head(rest) >> \o Tail(rest)

RECURSIVE Text(_)
\* the string a part stands for
Text(part) == IF part = <<>> THEN "" ELSE Head(part) \o Text(Tail(part))

\* value of a decimal digit
DigitValue == [c \in {"0", "1", "2", "3", "4", "5", "6", "7", "8", "9"} |->
                 CASE c = "0" -> 0 [] c = "1" -> 1 [] c = "2" -> 2 [] c = "3" -> 3
                   [] c = "4" -> 4 [] c = "5" -> 5 [] c = "6" -> 6 [] c = "7" -> 7
                   [] c = "8" -> 8 [] c = "9" -> 9]

RECURSIVE DecimalValue(_, _)
DecimalValue(part, acc) ==
  IF part = <<>> THEN acc
  ELSE DecimalValue(Tail(part), 10 * acc + DigitValue[Head(part)])

\* strconv.ParseUint(s, 10, 0): an error for the empty text and for a text
\* holding anything but decimal digits
ParseUint(part) ==
  IF part = <<>> \/ \E i \in 1..Len(part) : part[i] \notin DOMAIN DigitValue
  THEN [err |-> TRUE, id |-> 0]
  ELSE [err |-> FALSE, id |-> DecimalValue(part, 0)]

RECURSIVE lineMPop(_, _, _, _, _, _)
\* line.mPop: pop repeated up to n times, stopping at the first that fails
lineMPop(l, store, tname, tail, clock, n) ==
  IF n = 0 THEN [ids |-> <<>>, l |-> l]
  ELSE LET r == linePop(l, store, tname, tail, clock)
       IN IF r.err # Ok THEN [ids |-> <<>>, l |-> l]
          ELSE LET more == lineMPop(r.l, store, tname, tail, clock, n - 1)
               IN [ids |-> <<r.id>> \o more.ids, l |-> more.l]

\* topic.mPop
mPop(t, store, tname, name, clock, n) ==
  IF name \notin DOMAIN t.lines
  THEN [err |-> ErrLineNotExisted, t |-> t, ids |-> <<>>]
  ELSE LET r == lineMPop(t.lines[name], store, tname, t.tail, clock, n)
       IN [err |-> Ok, t |-> [t EXCEPT !.lines[name] = r.l], ids |-> r.ids]

RECURSIVE lineMConfirm(_, _)
\* line.mConfirm: every id is tried, the successful confirms are counted
lineMConfirm(l, ids) ==
  IF ids = <<>> THEN [count |-> 0, l |-> l]
  ELSE LET r == lineConfirm(l, Head(ids))
           more == lineMConfirm(r.l, Tail(ids))
       IN [count |-> more.count + (IF r.err = Ok THEN 1 ELSE 0), l |-> more.l]

\* topic.mConfirm
mConfirm(t, name, ids) ==
  IF name \notin DOMAIN t.lines
  THEN [err |-> ErrLineNotExisted, t |-> t, count |-> 0]
  ELSE LET r == lineMConfirm(t.lines[name], ids)
       IN [err |-> Ok, t |-> [t EXCEPT !.lines[name] = r.l], count |-> r.count]

\* UnitedQueue.Pop
UnitedQueuePop(tps, store, name, clock) ==
  LET parts == Split(name)
  IN IF Len(parts) # 2 THEN [err |-> ErrBadKey, topics |-> tps]
     ELSE LET tName == Text(parts[1])
              lName == Text(parts[2])
          IN IF tName \notin DOMAIN tps
             THEN [err |-> ErrTopicNotExisted, topics |-> tps]
             ELSE LET r == pop(tps[tName], store, tName, lName, clock)
                  IN [err |-> r.err, topics |-> [tps EXCEPT ![tName] = r.t]]

\* UnitedQueue.MultiPop
UnitedQueueMultiPop(tps, store, name, clock, n) ==
  LET parts == Split(name)
  IN IF Len(parts) # 2 THEN [err |-> ErrBadKey, topics |-> tps]
     ELSE LET tName == Text(parts[1])
              lName == Text(parts[2])
          IN IF tName \notin DOMAIN tps
             THEN [err |-> ErrTopicNotExisted, topics |-> tps]
             ELSE LET r == mPop(tps[tName], store, tName, lName, clock, n)
                  IN [err |-> r.err, topics |-> [tps EXCEPT ![tName] = r.t]]

\* UnitedQueue.Confirm
UnitedQueueConfirm(tps, key) ==
  LET parts == Split(key)
  IN IF Len(parts) # 3 THEN [err |-> ErrBadKey, topics |-> tps]
     ELSE LET topicName == Text(parts[1])
              lineName == Text(parts[2])
              parsed == ParseUint(parts[3])
          IN IF parsed.err THEN [err |-> ErrBadKey, topics |-> tps]
             ELSE IF topicName \notin DOMAIN tps
             THEN [err |-> ErrTopicNotExisted, topics |-> tps]
             ELSE LET r == confirm(tps[topicName], lineName, parsed.id)
                  IN [err |-> r.err, topics |-> [tps EXCEPT ![topicName] = r.t]]

\* UnitedQueue.MultiConfirm
UnitedQueueMultiConfirm(tps, name, ids) ==
  LET parts == Split(name)
  IN IF Len(parts) # 2 THEN [err |-> ErrBadKey, topics |-> tps]
     ELSE LET topicName == Text(parts[1])
              lineName == Text(parts[2])
          IN IF topicName \notin DOMAIN tps
             THEN [err |-> ErrTopicNotExisted, topics |-> tps]
             ELSE LET r == mConfirm(tps[topicName], lineName, ids)
                  IN [err |-> r.err, topics |-> [tps EXCEPT ![topicName] = r.t]]

\* the topic a key of at least two parts names lets its lines be read
LinesReadable(name) ==
  LET parts == Split(name)
  IN (Len(parts) >= 2 /\ Text(parts[1]) \in DOMAIN topics) =>
       /\ topics[Text(parts[1])].linesLock >= 0
       /\ topics[Text(parts[1])].tailLock >= 0

\* the id lists a client hands to MultiConfirm
IdLists == SeqsUpTo(0..MaxTail - 1, MaxPop)

PopRequest(name) ==
  /\ phase = "running"
  /\ LinesReadable(name)
  /\ topics' = UnitedQueuePop(topics, kv, name, now).topics
  /\ UNCHANGED <<shutdown, calls, kv, worker, creating, pushing, now, phase, saved, kvErrors>>

MultiPopRequest(name, n) ==
  /\ phase = "running"
  /\ LinesReadable(name)
  /\ topics' = UnitedQueueMultiPop(topics, kv, name, now, n).topics
  /\ UNCHANGED <<shutdown, calls, kv, worker, creating, pushing, now, phase, saved, kvErrors>>

ConfirmRequest(key) ==
  /\ phase = "running"
  /\ LinesReadable(key)
  /\ topics' = UnitedQueueConfirm(topics, key).topics
  /\ UNCHANGED <<shutdown, calls, kv, worker, creating, pushing, now, phase, saved, kvErrors>>

MultiConfirmRequest(name, ids) ==
  /\ phase = "running"
  /\ LinesReadable(name)
  /\ topics' = UnitedQueueMultiConfirm(topics, name, ids).topics
  /\ UNCHANGED <<shutdown, calls, kv, worker, creating, pushing, now, phase, saved, kvErrors>>

\* a broker on a storage without faults, serving requests by key
NextRoute ==
  \/ \E name \in ReqTopics : CreateTopic(name)
  \/ \E tname \in ReqTopics, name \in LineNames, recycle \in Recycles :
       CreateLineBegin(tname, name, recycle)
  \/ \E tname \in ReqTopics : CreateLineEnd(tname)
  \/ \E tname \in ReqTopics, data \in Payloads : Push(tname, data)
  \/ \E name \in Keys : PopRequest(name)
  \/ \E name \in Keys, n \in 1..MaxPop : MultiPopRequest(name, n)
  \/ \E key \in Keys : ConfirmRequest(key)
  \/ \E name \in Keys, ids \in IdLists : MultiConfirmRequest(name, ids)

SpecRoute == InitHealthy /\ [][NextRoute]_vars

\* the key is name "/" name, both names non-empty and without "/"
TwoNames(name) ==
  \E i \in 2..Len(name) - 1 :
    /\ name[i] = "/"
    /\ \A j \in 1..Len(name) : j # i => name[j] # "/"

\* the key is name "/" name "/" decimal number
TwoNamesAndId(key) ==
  \E i \in 2..Len(key) - 1 : \E j \in i + 2..Len(key) - 1 :
    /\ key[i] = "/" /\ key[j] = "/"
    /\ \A k \in 1..Len(key) : (k # i /\ k # j) => key[k] # "/"
    /\ \A k \in j + 1..Len(key) : key[k] \in {"0", "1"}

\* the names a key of that shape carries
TopicOf(name) == Text(Split(name)[1])
LineOf(name) == Text(Split(name)[2])

\* what the claim says of one reply r to a request of a line
RoutedAsClaimed(r, wellFormed, name) ==
  /\ ~wellFormed => r.err = ErrBadKey
  /\ (wellFormed /\ TopicOf(name) \notin DOMAIN topics) => r.err = ErrTopicNotExisted
  /\ (wellFormed /\ TopicOf(name) \in DOMAIN topics
        /\ LineOf(name) \notin DOMAIN topics[TopicOf(name)].lines) =>
       r.err = ErrLineNotExisted
  /\ r.err \in {ErrBadKey, ErrTopicNotExisted, ErrLineNotExisted} => r.topics = topics

\* C11: Pop, MultiPop and MultiConfirm of a key that is not two non-empty
\* names, and Confirm of a key that is not two non-empty names and a decimal
\* id, reply BadKey; a well-formed key of an unknown topic replies
\* TopicNotExisted, of an unknown line of a known topic LineNotExisted; and in
\* all these cases no topic and no line changes.
C11_RoutingErrors ==
  phase = "running" =>
    \A name \in Keys :
      /\ RoutedAsClaimed(UnitedQueuePop(topics, kv, name, now), TwoNames(name), name)
      /\ \A n \in 1..MaxPop :
           RoutedAsClaimed(UnitedQueueMultiPop(topics, kv, name, now, n),
                           TwoNames(name), name)
      /\ \A ids \in IdLists :
           RoutedAsClaimed(UnitedQueueMultiConfirm(topics, name, ids),
                           TwoNames(name), name)
      /\ RoutedAsClaimed(UnitedQueueConfirm(topics, name), TwoNamesAndId(name), name)

----------------------------------------------------------------------------
(* Concurrent Create requests of topics: createTopic looks the name up      *)
(* under the read lock of u.topics, releases it, and inserts later.         *)

MaxCallers == 2     \* clients calling Create at the same time

Callers == 1..MaxCallers

\* UnitedQueue.createTopic up to the release of the read lock: the reply
\* TopicExisted, or the call goes on
CreateTopicLookup(c, name) ==
  /\ phase = "running"
  /\ c \notin DOMAIN calls
  /\ calls' = MapPut(calls, c,
                IF name \in DOMAIN topics
                THEN [name |-> name, pc |-> "done", err |-> ErrTopicExisted,
                      started |-> FALSE]
                ELSE [name |-> name, pc |-> "looked up", err |-> Ok,
                      started |-> FALSE])
  /\ UNCHANGED <<shutdown, kv, topics, worker, creating, pushing, now, phase, saved, kvErrors>>

\* UnitedQueue.createTopic from newTopic on
CreateTopicInsert(c) ==
  /\ phase = "running"
  /\ c \in DOMAIN calls
  /\ calls[c].pc = "looked up"
  /\ \E fail \in Fails(3) :
       LET r == createTopicInsert(topics, kv, calls[c].name, fail)
       IN /\ topics' = r.topics
          /\ kv' = r.store
          /\ worker' = IF r.err = Ok THEN MapPut(worker, calls[c].name, Idle)
                       ELSE MapDelete(worker, calls[c].name)
          /\ calls' = [calls EXCEPT ![c].pc = "done", ![c].err = r.err,
                                    ![c].started = r.started]
          /\ Failed(fail)
  /\ UNCHANGED <<shutdown, creating, pushing, now, phase, saved>>

\* a broker on a storage without faults whose clients create topics and
\* lines, push and pop
NextCreate ==
  \/ \E c \in Callers, name \in ReqTopics : CreateTopicLookup(c, name)
  \/ \E c \in Callers : CreateTopicInsert(c)
  \/ \E tname \in ReqTopics, name \in LineNames, recycle \in Recycles :
       CreateLineBegin(tname, name, recycle)
  \/ \E tname \in ReqTopics : CreateLineEnd(tname)
  \/ \E tname \in ReqTopics, data \in Payloads : Push(tname, data)
  \/ \E tname \in ReqTopics, name \in LineNames : Pop(tname, name)

SpecCreate == InitHealthy /\ [][NextCreate]_vars

\* the Create calls of a topic name that have returned with err
Replied(name, err) ==
  {c \in DOMAIN calls : calls[c].name = name /\ calls[c].pc = "done"
                          /\ calls[c].err = err}

\* the background workers started for topics of that name
WorkersStarted(name) ==
  {c \in DOMAIN calls : calls[c].name = name /\ calls[c].started}

\* C12: among the Create calls of one topic name at most one returns ok, and
\* once all have returned the others returned TopicExisted; at most one
\* topic object with one background worker was started for the name; and a
\* topic that existed keeps its cursors and its lines whatever Create calls
\* of its name return.
C12_NamesUnique ==
  \A name \in TopicNames :
    /\ Cardinality(Replied(name, Ok)) <= 1
    /\ Cardinality(WorkersStarted(name)) <= 1
    /\ (\A c \in DOMAIN calls : calls[c].pc = "done") =>
         \A c \in DOMAIN calls :
           calls[c].name = name =>
             (c \in Replied(name, Ok) \/ c \in Replied(name, ErrTopicExisted))

\* C13: in the step in which an Empty of a topic returns ok, head = tail,
\* every line has ihead = head, no message in flight and an empty imap, and
\* the stored head anchor is the head; and an Empty applied again to the state
\* reached returns ok and leaves the topic, its lines and the storage as they
\* are.
C13_EmptyIdempotent ==
  [][\A tn \in DOMAIN topics :
       (Empty(tn) /\ kvErrors' = kvErrors) =>
         LET t1 == topics'[tn]
             again == empty(t1, kv', tn, 0)
         IN /\ t1.head = t1.tail
            /\ \A n \in DOMAIN t1.lines :
                 /\ t1.lines[n].ihead = t1.lines[n].head
                 /\ t1.lines[n].inflight = <<>>
                 /\ DOMAIN t1.lines[n].imap = {}
            /\ Get(kv', headKey(tn)) = [err |-> FALSE, data |-> PutUint64(t1.head)]
            /\ again.err = Ok
            /\ again.t = t1
            /\ again.store = kv']_vars

\* an emptied topic: its only line, of recycle > 0, stands before the head of
\* the topic, which is the tail, with nothing in flight
C13_Witness ==
  \E tn \in DOMAIN topics :
    /\ Running(tn)
    /\ topics[tn].head = topics[tn].tail
    /\ topics[tn].tail = MaxTail
    /\ Get(kv, headKey(tn)) = [err |-> FALSE, data |-> PutUint64(topics[tn].tail)]
    /\ \E n \in DOMAIN topics[tn].lines :
         /\ DOMAIN topics[tn].lines = {n}
         /\ topics[tn].lines[n].recycle > 0
         /\ topics[tn].lines[n].head = 1
         /\ topics[tn].lines[n].ihead = 1
         /\ topics[tn].lines[n].inflight = <<>>

----------------------------------------------------------------------------
(* Delivery on the lines of a topic while the clock advances *)

MaxNow == 4         \* the clock runs from 0 to MaxNow

\* time passes
Tick ==
  /\ phase = "running"
  /\ now < MaxNow
  /\ now' = now + 1
  /\ UNCHANGED <<shutdown, calls, kv, topics, worker, creating, pushing, phase, saved, kvErrors>>

NextDelivery ==
  \/ \E name \in ReqTopics : CreateTopic(name)
  \/ \E tname \in ReqTopics, name \in LineNames, recycle \in Recycles :
       CreateLineBegin(tname, name, recycle)
  \/ \E tname \in ReqTopics : CreateLineEnd(tname)
  \/ \E tname \in ReqTopics, data \in Payloads : Push(tname, data)
  \/ \E tname \in ReqTopics, name \in LineNames : Pop(tname, name)
  \/ \E tname \in ReqTopics, name \in LineNames, id \in 0..MaxTail :
       Confirm(tname, name, id)
  \/ Tick

SpecDelivery == InitHealthy /\ [][NextDelivery]_vars

\* the ids of the messages in flight on a line
InFlight(l) == {l.inflight[i].Tid : i \in 1..Len(l.inflight)}

\* the least id in flight, or the head of the line when there is none
LeastUnconfirmed(l) ==
  IF InFlight(l) = {} THEN l.head
  ELSE CHOOSE id \in InFlight(l) : \A other \in InFlight(l) : id <= other

\* C14: on a line with recycle > 0, the confirm of an id in flight returns ok,
\* takes the id out of the messages in flight and leaves ihead at the least
\* id still in flight, or at head if there is none; the confirm of any other
\* id returns NotFound and changes nothing.
C14_ConfirmSweepsIhead ==
  \A tn \in DOMAIN topics :
    Running(tn) =>
      \A n \in DOMAIN topics[tn].lines : \A id \in 0..MaxTail :
        LET l == topics[tn].lines[n]
            r == confirm(topics[tn], n, id)
            l2 == r.t.lines[n]
        IN l.recycle > 0 =>
             IF id \in InFlight(l)
             THEN /\ r.err = Ok
                  /\ InFlight(l2) = InFlight(l) \ {id}
                  /\ l2.ihead = LeastUnconfirmed(l2)
                  /\ l2.head = l.head
                  /\ l.ihead <= id /\ id < l.head
             ELSE /\ r.err = ErrNotFound
                  /\ r.t = topics[tn]

\* a line on which id 1 was confirmed before id 0: ihead waits at 0, and the
\* confirm of 0 takes it to 2
C14_Witness ==
  \E tn \in DOMAIN topics : \E n \in DOMAIN topics[tn].lines :
    LET l == topics[tn].lines[n]
    IN /\ l.recycle > 0
       /\ l.head = 2
       /\ l.ihead = 0
       /\ InFlight(l) = {0}
       /\ 1 \in DOMAIN l.imap /\ ~l.imap[1]
       /\ confirm(topics[tn], n, 0).t.lines[n].ihead = 2

\* the payloads of the ids a line may still deliver are in the storage
Deliverable(tn, l) ==
  \A id \in InFlight(l) \cup (l.head .. topics[tn].tail - 1) :
    Acatui(tn, ":", id) \in DOMAIN kv

\* C15 as stated: on a line with recycle > 0, every message in flight whose
\* expire time has come is the message the next pop returns.
C15_EveryExpiredIsNext ==
  \A tn \in DOMAIN topics :
    Running(tn) =>
      \A n \in DOMAIN topics[tn].lines :
        LET l == topics[tn].lines[n]
            r == pop(topics[tn], kv, tn, n, now)
        IN (l.recycle > 0 /\ Deliverable(tn, l)) =>
             \A i \in 1..Len(l.inflight) :
               l.inflight[i].Exptime <= now =>
                 (r.err = Ok /\ r.id = l.inflight[i].Tid)

\* C15, amended: on a line with recycle > 0, when the oldest message in flight
\* has expired the next pop returns it (same id, same payload), ahead of any
\* message not yet delivered, and puts it back last with expire = now +
\* recycle; the expired messages are returned in the order of their delivery,
\* the k-th of them by the k-th pop; a pop never returns a message in flight
\* that has not expired, nor a confirmed one: what it returns is the oldest
\* message in flight, expired, or the message at head.
C15_ExpiredAreRedeliveredInOrder ==
  \A tn \in DOMAIN topics :
    Running(tn) =>
      \A n \in DOMAIN topics[tn].lines :
        LET t == topics[tn]
            l == t.lines[n]
            r == pop(t, kv, tn, n, now)
        IN (l.recycle > 0 /\ Deliverable(tn, l)) =>
             /\ (l.inflight # <<>> /\ l.inflight[1].Exptime <= now) =>
                  /\ r.err = Ok
                  /\ r.id = l.inflight[1].Tid
                  /\ Get(kv, Acatui(tn, ":", r.id)) = [err |-> FALSE, data |-> r.data]
                  /\ r.t.lines[n].inflight =
                       Tail(l.inflight) \o <<[Tid |-> r.id, Exptime |-> now + l.recycle]>>
                  /\ r.t.lines[n].head = l.head
             /\ \A k \in 1..Len(l.inflight) :
                  (k <= MaxPop /\ \A i \in 1..k : l.inflight[i].Exptime <= now) =>
                    LET many == mPop(t, kv, tn, n, now, k)
                    IN Len(many.ids) = k /\ many.ids[k] = l.inflight[k].Tid
             /\ r.err = Ok =>
                  \/ /\ l.inflight # <<>>
                     /\ r.id = l.inflight[1].Tid
                     /\ l.inflight[1].Exptime <= now
                  \/ r.id = l.head /\ l.head < t.tail

\* two messages in flight whose expire time has come, and a third message
\* waiting at head
C15_Witness ==
  \E tn \in DOMAIN topics : \E n \in DOMAIN topics[tn].lines :
    LET l == topics[tn].lines[n]
    IN /\ l.recycle > 0
       /\ Len(l.inflight) = 2
       /\ \A i \in 1..2 : l.inflight[i].Exptime <= now
       /\ l.inflight[1].Tid = 1
       /\ Deliverable(tn, l)

\* C16: in the step in which createLine sees the write of the topic catalog
\* fail, the new line is taken out of the lines again, the call returns, and
\* the lines lock is free.
C16_CreateLineRollsBack ==
  [][\A tn \in DOMAIN creating :
       (CreateLineEnd(tn) /\ kvErrors' > kvErrors) =>
         /\ tn \notin DOMAIN creating'
         /\ topics'[tn].lines = topics[tn].lines
         /\ topics'[tn].linesLock = 0]_vars

----------------------------------------------------------------------------
(* topic.removeLine *)

\* line.remove: the persistent keys of the line are deleted
lineRemove(store, tname, lname) ==
  Del(Del(store, lineStoreKey(tname, lname)), recycleKey(tname, lname))

\* topic.removeLine between linesLock.RLock() and its return.  stuck: the
\* handler calls linesLock.Lock() while it holds the read lock, after a failed
\* exportTopic, and waits for itself.
removeLine(t, store, tname, name, fail) ==
  IF name \notin DOMAIN t.lines
  THEN [err |-> ErrLineNotExisted, t |-> t, store |-> store, stuck |-> FALSE]
  ELSE LET t1 == [t EXCEPT !.lines = MapDelete(@, name)]
       IN IF fail = 1
          THEN [err |-> ErrInternalError, t |-> t1, store |-> store, stuck |-> TRUE]
          ELSE [err |-> Ok, t |-> t1, stuck |-> FALSE,
                store |-> lineRemove(exportTopic(store, tname, t1), tname, name)]

\* What the deferred linesLock.Unlock() of removeLine does to a lock that is
\* read-locked: the runtime ends the process ("fatal": sync: Unlock of
\* unlocked RWMutex), or, when a writer is waiting for the lock at that
\* moment, the call returns and the read lock is never released ("leaked").
UnlockOutcomes == {"fatal", "leaked"}

\* read locks explored as never released
MaxLeaked == 2

\* a removeLine request
RemoveLine(tname, name) ==
  /\ phase = "running"
  /\ tname \in DOMAIN topics
  /\ topics[tname].linesLock >= 0
  /\ topics[tname].linesLock < MaxLeaked
  /\ \E fail \in Fails(1), outcome \in UnlockOutcomes :
       LET r == removeLine(topics[tname], kv, tname, name, fail)
           held == [r.t EXCEPT !.linesLock = @ + 1]
       IN /\ kv' = r.store
          /\ Failed(fail)
          /\ IF r.stuck \/ outcome = "leaked"
             THEN /\ topics' = [topics EXCEPT ![tname] = held]
                  /\ UNCHANGED <<phase, saved>>
             ELSE /\ topics' = [topics EXCEPT ![tname] = r.t]
                  /\ phase' = "crashed"
                  /\ saved' = topics'
  /\ UNCHANGED <<shutdown, calls, worker, creating, pushing, now>>

NextRemove ==
  \/ \E name \in ReqTopics : CreateTopic(name)
  \/ \E tname \in ReqTopics, name \in LineNames, recycle \in Recycles :
       CreateLineBegin(tname, name, recycle)
  \/ \E tname \in ReqTopics : CreateLineEnd(tname)
  \/ \E tname \in ReqTopics, data \in Payloads : Push(tname, data)
  \/ \E tname \in ReqTopics, name \in LineNames : Pop(tname, name)
  \/ \E tname \in ReqTopics, name \in LineNames : RemoveLine(tname, name)

SpecRemove == Init /\ [][NextRemove]_vars

\* C17: in the step of a removeLine of an existing line whose storage calls
\* succeed, the line leaves the lines of the topic, the stored topic catalog
\* lists the lines left, the catalog and the recycle value of the line are
\* deleted, the lines lock is as free as before and the broker goes on
\* running; a removeLine of an unknown line changes nothing.
C17_RemoveLineDetaches ==
  [][\A tn \in DOMAIN topics : \A n \in LineNames :
       (RemoveLine(tn, n) /\ kvErrors' = kvErrors) =>
         /\ phase' = "running"
         /\ topics'[tn].linesLock = topics[tn].linesLock
         /\ IF n \in DOMAIN topics[tn].lines
            THEN /\ DOMAIN topics'[tn].lines = DOMAIN topics[tn].lines \ {n}
                 /\ Get(kv', tn) = [err |-> FALSE,
                                    data |-> GobEncode("topicStore", genTopicStore(topics'[tn]))]
                 /\ lineStoreKey(tn, n) \notin DOMAIN kv'
                 /\ recycleKey(tn, n) \notin DOMAIN kv'
            ELSE topics' = topics /\ kv' = kv]_vars

----------------------------------------------------------------------------
(* The background worker of a topic and topic.close *)

\* the goroutine of `go t.backgroundClean()` before its first statement
Spawned == [pc |-> "spawned", ending |-> 0]

\* t.quit open, t.wg at zero, topic.close not called
Open == [quit |-> FALSE, wg |-> 0, close |-> "no"]

\* UnitedQueue.Create of a topic; topic.start returns once the goroutine of the
\* worker is created
StartTopic(name) ==
  /\ phase = "running"
  /\ name \notin DOMAIN topics
  /\ \E fail \in Fails(3) :
       LET r == createTopic(topics, kv, name, fail)
       IN /\ topics' = r.topics
          /\ kv' = r.store
          /\ worker' = IF r.err = Ok THEN MapPut(worker, name, Spawned) ELSE worker
          /\ shutdown' = IF r.err = Ok THEN MapPut(shutdown, name, Open) ELSE shutdown
          /\ Failed(fail)
  /\ UNCHANGED <<calls, creating, pushing, now, phase, saved>>

\* backgroundClean starts to run: t.wg.Add(1), the tickers, the loop
WorkerBegin(tname) ==
  /\ tname \in DOMAIN shutdown
  /\ worker[tname].pc = "spawned"
  /\ worker' = [worker EXCEPT ![tname] = Idle]
  /\ shutdown' = [shutdown EXCEPT ![tname].wg = @ + 1]
  /\ UNCHANGED <<calls, kv, topics, creating, pushing, now, phase, saved, kvErrors>>

\* the select of the loop takes the backup tick: topic.exportLines is called
BackupBegin(tname) ==
  /\ tname \in DOMAIN shutdown
  /\ worker[tname].pc = "idle"
  /\ worker' = [worker EXCEPT ![tname].pc = "backup"]
  /\ UNCHANGED <<shutdown, calls, kv, topics, creating, pushing, now, phase, saved, kvErrors>>

\* topic.exportLines gets the lines read lock, writes the line catalogs and
\* returns to the loop
BackupEnd(tname) ==
  /\ tname \in DOMAIN shutdown
  /\ worker[tname].pc = "backup"
  /\ topics[tname].linesLock >= 0
  /\ \E failing \in SUBSET {lineStoreKey(tname, n) : n \in DOMAIN topics[tname].lines} :
       /\ kvErrors + Cardinality(failing) <= MaxKVErrors
       /\ kv' = exportLines(topics[tname], kv, tname, failing)
       /\ kvErrors' = kvErrors + Cardinality(failing)
  /\ worker' = [worker EXCEPT ![tname] = Idle]
  /\ UNCHANGED <<shutdown, calls, topics, creating, pushing, now, phase, saved>>

\* the select of the loop takes the clean tick: topic.clean is called
WorkerCleanBegin(tname) ==
  /\ tname \in DOMAIN shutdown
  /\ CleanBegin(tname)

\* one round of the loop of topic.clean, whose select finds t.quit open
WorkerCleanLoop(tname) ==
  /\ tname \in DOMAIN shutdown
  /\ ~shutdown[tname].quit
  /\ CleanLoop(tname)

\* topic.clean returns to the loop of the worker
WorkerCleanReturn(tname) ==
  /\ tname \in DOMAIN shutdown
  /\ CleanReturn(tname)

\* the select of the loop takes t.quit: the loop ends, t.wg.Done() runs
WorkerQuit(tname) ==
  /\ tname \in DOMAIN shutdown
  /\ worker[tname].pc = "idle"
  /\ shutdown[tname].quit
  /\ worker' = [worker EXCEPT ![tname].pc = "exited"]
  /\ shutdown' = [shutdown EXCEPT ![tname].wg = @ - 1]
  /\ UNCHANGED <<calls, kv, topics, creating, pushing, now, phase, saved, kvErrors>>

\* topic.close: close(t.quit)
TopicCloseBegin(tname) ==
  /\ tname \in DOMAIN shutdown
  /\ shutdown[tname].close = "no"
  /\ shutdown' = [shutdown EXCEPT ![tname].quit = TRUE, ![tname].close = "waiting"]
  /\ UNCHANGED <<calls, kv, topics, worker, creating, pushing, now, phase, saved, kvErrors>>

\* topic.close: t.wg.Wait() returns when the counter is zero
TopicCloseReturn(tname) ==
  /\ tname \in DOMAIN shutdown
  /\ shutdown[tname].close = "waiting"
  /\ shutdown[tname].wg = 0
  /\ shutdown' = [shutdown EXCEPT ![tname].close = "returned"]
  /\ UNCHANGED <<calls, kv, topics, worker, creating, pushing, now, phase, saved, kvErrors>>

\* a step of the worker of a topic
WorkerStep(tname) ==
  \/ WorkerBegin(tname)
  \/ BackupBegin(tname)
  \/ BackupEnd(tname)
  \/ WorkerCleanBegin(tname)
  \/ WorkerCleanLoop(tname)
  \/ WorkerCleanReturn(tname)
  \/ WorkerQuit(tname)

NextShutdown ==
  \/ \E name \in ReqTopics : StartTopic(name)
  \/ \E tname \in ReqTopics, name \in LineNames, recycle \in Recycles :
       CreateLineBegin(tname, name, recycle)
  \/ \E tname \in ReqTopics : CreateLineEnd(tname)
  \/ \E tname \in ReqTopics, data \in Payloads : Push(tname, data)
  \/ \E tname \in ReqTopics, name \in LineNames : Pop(tname, name)
  \/ \E tname \in ReqTopics : WorkerStep(tname)
  \/ \E tname \in ReqTopics : TopicCloseBegin(tname)
  \/ \E tname \in ReqTopics : TopicCloseReturn(tname)

SpecShutdown == Init /\ [][NextShutdown]_vars

\* Scheduling: a goroutine that can run does run; a createLine that holds the
\* lines lock goes on; a reader of the lines lock gets it when it is free
\* again and again; the select of the loop, which picks at random among the
\* ready channels, picks t.quit when it is ready again and again.
FairShutdown ==
  \A tname \in ReqTopics :
    /\ WF_vars(WorkerBegin(tname))
    /\ SF_vars(BackupEnd(tname))
    /\ WF_vars(WorkerCleanReturn(tname))
    /\ SF_vars(WorkerQuit(tname))
    /\ WF_vars(TopicCloseReturn(tname))
    /\ WF_vars(CreateLineEnd(tname))

SpecShutdownFair == SpecShutdown /\ FairShutdown

\* C18: once t.quit of a topic is closed, its worker leaves the loop and
\* topic.close returns.
C18_WorkerShutdownTerminates ==
  \A tname \in ReqTopics :
    (tname \in DOMAIN shutdown /\ shutdown[tname].quit)
      ~> (/\ tname \in DOMAIN shutdown
          /\ worker[tname].pc = "exited"
          /\ shutdown[tname].close = "returned")

\* C19: once topic.close has returned, no step of the worker of that topic
\* changes the storage or the head of the topic.
C19_ShutdownBarrier ==
  [][\A tname \in DOMAIN shutdown :
       (shutdown[tname].close = "returned" /\ WorkerStep(tname)) =>
         (kv' = kv /\ topics'[tname].head = topics[tname].head)]_vars

\* C20: in every state the storage holds no payload key of a topic with an id
\* below the head of the topic.
C20_HeadIsLowestRetained ==
  \A tn \in DOMAIN topics :
    \A id \in 0 .. topics[tn].head - 1 :
      Acatui(tn, ":", id) \notin DOMAIN kv

----------------------------------------------------------------------------
(* The bound of a clean pass *)

\* the head of a topic without lines; otherwise the least of the tail and of
\* the frontiers of the lines
ReclamationBound(t) ==
  IF DOMAIN t.lines = {} THEN t.head ELSE Min(t.tail, MinFrontier(t))

\* the stored keys other than those in keys are the same before and after
SameExcept(keys) ==
  /\ DOMAIN kv' \ keys = DOMAIN kv \ keys
  /\ \A k \in DOMAIN kv \ keys : kv'[k] = kv[k]

\* C21: a clean pass takes as its bound the head of the topic when the topic
\* has no line, and otherwise the least of the tail and, over the lines, of
\* ihead (recycle > 0) or head (recycle 0); each round of the pass whose
\* storage calls succeed runs below the bound, deletes the payload of the head
\* of the topic and nothing else, and moves the head by one; and no other step
\* moves the head or the bound while the pass goes on.
C21_CleanBound ==
  [][\A tn \in DOMAIN worker :
       /\ CleanBegin(tn) => worker'[tn].ending = ReclamationBound(topics[tn])
       /\ (CleanLoop(tn) /\ kvErrors' = kvErrors) =>
            /\ topics[tn].head < worker[tn].ending
            /\ topics'[tn].head = topics[tn].head + 1
            /\ Acatui(tn, ":", topics[tn].head) \notin DOMAIN kv'
            /\ SameExcept({Acatui(tn, ":", topics[tn].head), headKey(tn)})
       /\ (/\ worker[tn].pc = "clean"
           /\ tn \in DOMAIN worker'
           /\ worker'[tn].pc = "clean"
           /\ ~CleanLoop(tn)) =>
            /\ topics'[tn].head = topics[tn].head
            /\ worker'[tn].ending = worker[tn].ending]_vars

\* a pass has deleted up to its bound, which a line with recycle > 0 that has
\* confirmed a message sets below the head of a line with recycle 0 and below
\* the tail
C21_Witness ==
  \E tn \in DOMAIN worker :
    /\ worker[tn].pc = "clean"
    /\ topics[tn].head = worker[tn].ending
    /\ topics[tn].head > 0
    /\ topics[tn].head < topics[tn].tail
    /\ \E a, b \in DOMAIN topics[tn].lines :
         /\ topics[tn].lines[a].recycle = 0
         /\ topics[tn].lines[a].head = topics[tn].tail
         /\ topics[tn].lines[b].recycle > 0
         /\ topics[tn].lines[b].ihead = topics[tn].head
         /\ topics[tn].lines[b].head > topics[tn].lines[b].ihead
    /\ \A id \in 0 .. topics[tn].head - 1 : Acatui(tn, ":", id) \notin DOMAIN kv

\* the pass of the same topic before the confirm: the bound is the head of the
\* topic and nothing is deleted
C21_NothingDeleted ==
  \E tn \in DOMAIN worker :
    /\ worker[tn].pc = "clean"
    /\ worker[tn].ending = 0
    /\ topics[tn].tail = MaxTail
    /\ \E a, b \in DOMAIN topics[tn].lines :
         /\ topics[tn].lines[a].recycle = 0
         /\ topics[tn].lines[a].head = topics[tn].tail
         /\ topics[tn].lines[b].recycle > 0
         /\ topics[tn].lines[b].ihead = 0
         /\ topics[tn].lines[b].head > 0

----------------------------------------------------------------------------
(* The bookkeeping of a line *)

\* the ids of the messages in flight of a line, in the order of the list
Tids(l) == [i \in 1..Len(l.inflight) |-> l.inflight[i].Tid]

LineBookkeeping(l) ==
  /\ l.ihead <= l.head
  /\ \A i \in 1..Len(l.inflight) :
       /\ l.ihead <= Tids(l)[i] /\ Tids(l)[i] < l.head
       /\ \A j \in 1..Len(l.inflight) : Tids(l)[i] = Tids(l)[j] => i = j
  /\ DOMAIN l.imap = l.ihead .. l.head - 1
  /\ \A id \in DOMAIN l.imap :
       l.imap[id] <=> \E i \in 1..Len(l.inflight) : Tids(l)[i] = id

\* the in-flight list of the catalog stored for a line
StoredInflights(tn, n) ==
  GobDecode("lineStore", kv[lineStoreKey(tn, n)]).value.Inflights

----------------------------------------------------------------------------
(* The lines lock and the lines map *)

NextLines ==
  \/ NextRemove
  \/ Cleaning
  \/ \E tname \in ReqTopics : Backup(tname)

SpecLines == Init /\ [][NextLines]_vars

\* the steps that look a line up in t.lines or range over t.lines
ReadsLines(tn) ==
  \/ \E n \in LineNames : Pop(tn, n)
  \/ Backup(tn)
  \/ CleanBegin(tn)

\* C23: a step that puts a line into the lines of a topic or takes one out is
\* the step of the createLine that holds the lines lock for writing, or starts
\* where the lines lock is free, so that the write lock can be taken; and a
\* step that looks a line up or ranges over the lines starts where no writer
\* holds the lines lock, so that the read lock can be taken.
C23_LinesLockDiscipline ==
  [][\A tn \in DOMAIN topics \cap DOMAIN topics' :
       /\ DOMAIN topics'[tn].lines # DOMAIN topics[tn].lines =>
            (CreateLineEnd(tn) \/ topics[tn].linesLock = 0)
       /\ ReadsLines(tn) => topics[tn].linesLock >= 0]_vars

====
